---- MODULE Spec2Model ----
(***************************************************************************)
(* Versioned record store, form submission and link reconciliation of the  *)
(* collaboratorium application.                                            *)
(*                                                                         *)
(* The store is the SQLite database behind db_connect(): one table of      *)
(* versioned rows per schema table, keyed by (id, version).  The forms     *)
(* use two tables: the node table "people" and the link table              *)
(* "organisation_people_links" whose foreign keys person_id and            *)
(* organisation_id are the source and the target column of the             *)
(* "organisations_links" element of the people form.                       *)
(*                                                                         *)
(* Spec       : the people form (form loader and form_gen.handle_submit)   *)
(*              used by two concurrent browser sessions.                   *)
(* SpecForms  : the people form and the link-table form behind an edge,    *)
(*              used by one session.                                       *)
(* SpecSeq    : the people form used by one session, with longer record    *)
(*              histories.                                                 *)
(* SpecEdges  : SpecForms with link histories of three versions.           *)
(* SpecLegacy : SpecSeq for the earlier revision of handle_submit          *)
(*              (src/colabratorium).                                       *)
(* SpecDb     : the people form and update_links of db.py.                 *)
(* SpecGraph  : db.build_elements_from_db over stores of people,           *)
(*              organisations, initiatives and link records that were      *)
(*              created, edited and deleted.                               *)
(* SpecContracts : build_elements_from_db over stores of people and a      *)
(*              contract with several foreign keys to people.              *)
(* SpecFilter : build_elements_from_db over stores of active records,      *)
(*              for every seed set, radius and node type set.              *)
(* SpecSeeds  : SpecFilter's stores with seeds of two node types.          *)
(* SpecFailing : SpecFilter's stores in a database that lacks one table.   *)
(* SpecSelf   : the initiatives form with the Parents and Children         *)
(*              dropdowns of the self-referential link table.              *)
(***************************************************************************)
EXTENDS Integers, FiniteSets, Sequences, TLC

\* ------------------------------------------------------------------ bounds
MaxId      == 2   \* ids of people records
MaxLinkId  == 2   \* ids of link records
MaxVersion == 2   \* versions per id
MaxSeqVersion == 4   \* versions per id in the single-session runs
NumTargets == 2   \* organisation ids offered by the link dropdown
MaxRadius == 3   \* largest radius of the degree filter
MaxEdgeVersion == 3   \* versions per id in the runs with the edge form

\* browser sessions: s1 and s2 submit concurrently, s3 works alone
Concurrent == {"s1", "s2"}
Single     == {"s3"}
Sessions   == Concurrent \cup Single
Targets    == 1..NumTargets

\* current-person-id of a session (State("current-person-id", "data"))
person_id(s) == IF s = "s3" THEN 2 ELSE 1

PEOPLE == "people"
LINKS  == "organisation_people_links"
Tables == {PEOPLE, LINKS}
Status == {"active", "deleted"}

\* the "store" entry of the people form's select_multiple element
link_table   == LINKS
source_field == "person_id"
target_field == "organisation_id"

VARIABLES
    db,        \* committed rows of each table: what every other connection reads
    lock,      \* the session whose connection holds SQLite's write lock, or "none"
    pc,        \* position of each session's handle_submit call
    form,      \* the form a session has on screen: table, and the id/version hidden inputs
    object_id, \* handle_submit's local object_id
    data,      \* handle_submit's local data (the submitted values)
    written,   \* rows the session's submission has INSERTed so far
    result,    \* the error the session's last submission ended with, or "none"
    calls,     \* history: the last two committed link reconciliations of the single session
    dbml,      \* the parsed schema: its declared foreign keys
    snapshot,  \* the rows of each schema table as build_elements_from_db reads them
    args,      \* the arguments of the build_elements_from_db call
    all_elements, \* its all_nodes and all_edges, or NoGraph before they are built
    elements   \* its return value, or NoGraph before it returns

vars == <<db, lock, pc, form, object_id, data, written, result, calls,
          dbml, snapshot, args, all_elements, elements>>

\* ------------------------------------------------------------------ rows
NoRows == [t \in Tables |-> {}]
NoForm == [table |-> "none", id |-> 0, version |-> 0]
NoData == [status |-> "none", links |-> {}, absent |-> "none", is_new |-> FALSE, reconciled |-> FALSE]
NoCall == [source |-> 0, links |-> {}, rows |-> {}]
NoGraph == [nodes |-> {}, edges |-> {}, built |-> FALSE]
NoArgs == [include_deleted |-> FALSE, node_types |-> {}, people_selected |-> {}, degree |-> 0]
NoSnapshot == [t \in {} |-> {}]

\* a NULL integer column is written 0
Ids(rows) == {r.id : r \in rows}

Max(S) == CHOOSE x \in S : \A y \in S : y <= x

\* SELECT MAX(id) FROM table; 0 when the table is empty
get_max_id_from_cursor(rows) == IF rows = {} THEN 0 ELSE Max(Ids(rows))

\* SELECT * FROM table WHERE id = ? ORDER BY version DESC LIMIT 1
LatestRow(rows, id) ==
    CHOOSE r \in rows : r.id = id /\ \A q \in rows : q.id = id => q.version <= r.version

\* a table created without PRIMARY KEY (id, version)
PrimaryKeyFree_unchecked(rows, r) == TRUE

\* PRIMARY KEY (id, version)
PrimaryKeyFree(rows, r) == ~ \E q \in rows : q.id = r.id /\ q.version = r.version

\* ------------------------------------------------------------------ reads
\* db.get_latest_record: WHERE id = ? AND status != 'deleted' ORDER BY version DESC LIMIT 1
get_latest_record(rows, oid) ==
    LET cand == {r \in rows : r.id = oid /\ r.status # "deleted"}
    IN  IF oid = 0 \/ cand = {} THEN {}
        ELSE {CHOOSE r \in cand : \A q \in cand : q.version <= r.version}

\* the RankedRow query of handle_submit / get_latest_entry: the WHERE on the
\* source column is applied before ROW_NUMBER() ranks the versions of each id.
\* The possible results: rows with a NULL id form one partition with equal
\* versions, of which any one row gets rn = 1.
RankedRow(rows, source_col, oid) ==
    LET sel   == {r \in rows : r[source_col] = oid}
        top   == {r \in sel : r.id # 0 /\ \A q \in sel : q.id = r.id => q.version <= r.version}
        nulls == {r \in sel : r.id = 0}
    IN  IF nulls = {} THEN {top} ELSE {top \cup {n} : n \in nulls}

\* current_links = {row[1]: row[0] for row in cur.fetchall()} over the rows
\* ranked first whose status is not 'deleted': one link id per target; with
\* several rows for one target the last row fetched wins
LinkMaps(cur, target_col) ==
    LET keys == {r[target_col] : r \in cur}
    IN  {m \in [keys -> Ids(cur)] :
            \A k \in keys : \E r \in cur : r[target_col] = k /\ r.id = m[k]}

\* a handler that takes no record for a current link
CurrentLinkMaps_unread(rows, source_col, target_col, oid) ==
    {[k \in {} |-> 0]}

CurrentLinkMaps(rows, source_col, target_col, oid) ==
    UNION {LinkMaps({r \in ranked : r.status # "deleted"}, target_col) :
              ranked \in RankedRow(rows, source_col, oid)}

\* the earlier revision's query: SELECT id, target FROM link_table
\* WHERE source = ? AND status != 'deleted', over every version
LegacyCurrentLinkMaps(rows, source_col, target_col, oid) ==
    LinkMaps({r \in rows : r[source_col] = oid /\ r.status # "deleted"}, target_col)

\* get_all_records: SELECT * FROM table WHERE (status IS NULL OR status != 'deleted')
\* ORDER BY timestamp DESC, version DESC; the rows it returns, in any order
get_all_records(rows) == {r \in rows : r.status # "deleted"}

\* ORDER BY column, ascending: the values of a result set in order
RECURSIVE order_by(_)
order_by(S) ==
    IF S = {} THEN <<>>
    ELSE LET m == CHOOSE x \in S : \A y \in S : x <= y
         IN  <<m>> \o order_by(S \ {m})

\* a query that drops the deleted rows before it ranks the versions
get_dropdown_options_unranked(rows, value_column, label_column) ==
    LET live   == {r \in rows : r.status # "deleted"}
        ranked == {r \in live : \A q \in live :
                        q[value_column] = r[value_column] => q.version <= r.version}
        vals   == order_by({r[value_column] : r \in ranked})
    IN  [i \in 1..Len(vals) |->
            LET r == CHOOSE q \in ranked : q[value_column] = vals[i]
            IN  [label |-> ToString(r[label_column]), value |-> vals[i]]]

\* get_dropdown_options: ROW_NUMBER() OVER (PARTITION BY value_column ORDER BY
\* version DESC) ranks the versions of each value; the rows with rn = 1 AND
\* status != 'deleted' are returned ORDER BY value_column as
\* {"label": str(r[1]), "value": r[0]}
get_dropdown_options(rows, value_column, label_column) ==
    LET ranked == {r \in rows : \A q \in rows :
                        q[value_column] = r[value_column] => q.version <= r.version}
        sel    == {r \in ranked : r.status # "deleted"}
        vals   == order_by({r[value_column] : r \in sel})
    IN  [i \in 1..Len(vals) |->
            LET r == CHOOSE q \in sel : q[value_column] = vals[i]
            IN  [label |-> ToString(r[label_column]), value |-> vals[i]]]

\* ------------------------------------------------------------------ handle_submit
\* a handler without the assignment data['status'] = 'active'
main_values_keep_status(is_new, new_id, f, st) ==
    IF is_new
    THEN [id |-> new_id, version |-> 1, status |-> st]
    ELSE [id |-> f.id, version |-> f.version + 1, status |-> st]

\* id, version and status of the main row: a new object gets max(id) + 1,
\* version 1 and status 'active'; an edit keeps the submitted id and status
\* and takes the version of the hidden input plus one
main_values(is_new, new_id, f, st) ==
    IF is_new
    THEN [id |-> new_id, version |-> 1, status |-> "active"]
    ELSE [id |-> f.id, version |-> f.version + 1, status |-> st]

\* the row built from data for the columns pragma table_info lists
main_row(t, v, person, p, o) ==
    IF t = PEOPLE
    THEN [id |-> v.id, version |-> v.version, status |-> v.status, created_by |-> person]
    ELSE [id |-> v.id, version |-> v.version, status |-> v.status, created_by |-> person,
          person_id |-> p, organisation_id |-> o]

\* element columns of a table's form (config_gen.generate_elements_for_table)
ElementColumns(t) == IF t = PEOPLE THEN {"status"} ELSE {"status", "person_id", "organisation_id"}

\* vals.append(data[col_name]) raises KeyError for a table column data has no
\* key for; handle_submit itself sets id, version, timestamp, created_by and,
\* for a new object, status
raises_KeyError(t, is_new, absent) ==
    /\ absent \in ElementColumns(t)
    /\ ~ (is_new /\ absent = "status")

\* a connection in autocommit mode: every INSERT is visible at once
execute_insert_autocommit(committed, t, rows) == [committed EXCEPT ![t] = @ \cup rows]

\* rows INSERTed through cur.execute stay private to the connection until
\* conn.commit(): the committed store other connections read is unchanged
execute_insert(committed, t, rows) == committed

Perms(S) == {f \in [1..Cardinality(S) -> S] : \A i, j \in DOMAIN f : f[i] = f[j] => i = j}

\* Part 2 of handle_submit for one link element: the rows it INSERTs, given
\* the rows the cursor sees, the dict current_links and the iteration order
\* of ids_to_add
reconcile_rows(rows, source_col, target_col, oid, newly_selected_ids, current_links, order, person) ==
    LET currently_linked_ids == DOMAIN current_links
        ids_to_remove == currently_linked_ids \ newly_selected_ids
        removed == {[LatestRow(rows, current_links[tg]) EXCEPT
                        !.version = @ + 1, !.status = "deleted"] : tg \in ids_to_remove}
        base == get_max_id_from_cursor(rows)
        added == {[c \in {"id", "version", "status", "created_by", source_col, target_col} |->
                      CASE c = "id" -> base + i
                        [] c = "version" -> 1
                        [] c = "status" -> "active"
                        [] c = "created_by" -> person
                        [] c = source_col -> oid
                        [] OTHER -> order[i]] : i \in DOMAIN order}
    IN  removed \cup added

\* the columns of organisation_people_links; a column that an INSERT names no
\* value for holds NULL, and a row of the model then has no field for it
LinkTableColumns ==
    {"id", "version", "timestamp", "status", "organisation_id", "person_id", "type", "created_by"}

\* cur.fetchone() returns a row for every link id to remove (none for a NULL id)
removable(current_links, newly_selected_ids) ==
    \A tg \in DOMAIN current_links \ newly_selected_ids : current_links[tg] # 0

WithinBounds(t, rows, cap) ==
    \A r \in rows : r.version <= cap /\ r.id <= (IF t = PEOPLE THEN MaxId ELSE MaxLinkId)

TxnRows(s, t) == db[t] \cup written[s][t]

\* ------------------------------------------------------------------ the application
NoSessions ==
    /\ db = NoRows
    /\ lock = "none"
    /\ pc = [s \in Sessions |-> "idle"]
    /\ form = [s \in Sessions |-> NoForm]
    /\ object_id = [s \in Sessions |-> 0]
    /\ data = [s \in Sessions |-> NoData]
    /\ written = [s \in Sessions |-> NoRows]
    /\ result = [s \in Sessions |-> "none"]
    /\ calls = <<NoCall, NoCall>>

Init ==
    /\ NoSessions
    /\ dbml = [refs |-> {}]
    /\ snapshot = NoSnapshot
    /\ args = NoArgs
    /\ all_elements = NoGraph
    /\ elements = NoGraph

\* load_form -> generate_form_layout(form_name, forms_config, object_id): the
\* add form (oid = 0) or the form of a tapped node or edge; the hidden inputs
\* id and version come from get_latest_entry
LoadForm(s, t, oid) ==
    /\ pc[s] = "idle"
    /\ oid \in Ids(db[t]) \cup {0}
    /\ LET rec == get_latest_record(db[t], oid)
           f == IF rec = {} THEN [table |-> t, id |-> 0, version |-> 0]
                ELSE [table |-> t, id |-> (CHOOSE r \in rec : TRUE).id,
                      version |-> (CHOOSE r \in rec : TRUE).version]
       IN  /\ form[s] # f \/ result[s] # "none"
           /\ form' = [form EXCEPT ![s] = f]
    /\ data' = [data EXCEPT ![s] = NoData]
    /\ result' = [result EXCEPT ![s] = "none"]
    /\ UNCHANGED <<db, lock, pc, object_id, written, calls, dbml, snapshot, args, all_elements, elements>>

\* handle_submit, new object: new_id = _get_max_id_from_cursor(cur, table) + 1,
\* read before the INSERT opens the transaction
ReadMaxId(s) ==
    /\ pc[s] = "idle"
    /\ form[s].table \in Tables
    /\ form[s].id = 0
    /\ LET new_id == get_max_id_from_cursor(db[form[s].table]) + 1
       IN  /\ new_id <= (IF form[s].table = PEOPLE THEN MaxId ELSE MaxLinkId)
           /\ object_id' = [object_id EXCEPT ![s] = new_id]
    /\ pc' = [pc EXCEPT ![s] = "alloc"]
    /\ data' = [data EXCEPT ![s] = NoData]
    /\ result' = [result EXCEPT ![s] = "none"]
    /\ UNCHANGED <<db, lock, form, written, calls, dbml, snapshot, args, all_elements, elements>>

\* handle_submit, Part 1: build the row and INSERT it. The INSERT takes the
\* write lock; a KeyError is raised before it, an IntegrityError by it.
\* A dropdown left empty submits None (p = 0, o = 0), bound as NULL.
InsertMain(s, st, sel, p, o, absent, cap) ==
    /\ \/ pc[s] = "alloc"
       \/ pc[s] = "idle" /\ form[s].table \in Tables /\ form[s].id # 0
    /\ LET t == form[s].table
           is_new == pc[s] = "alloc"
           v == main_values(is_new, object_id[s], form[s], st)
           row == main_row(t, v, person_id(s), p, o)
           d == [NoData EXCEPT !.status = st, !.links = sel, !.absent = absent, !.is_new = is_new]
       IN  /\ absent \in ElementColumns(t) \cup {"none"}
           /\ t = PEOPLE => p = 0 /\ o = 0
           /\ t = LINKS => sel = {} /\ p \in Ids(db[PEOPLE]) \cup {0} /\ o \in Targets \cup {0}
           /\ WithinBounds(t, {row}, cap)
           /\ IF raises_KeyError(t, is_new, absent)
              THEN /\ result' = [result EXCEPT ![s] = "KeyError"]
                   /\ data' = [data EXCEPT ![s] = [NoData EXCEPT !.absent = absent, !.is_new = is_new]]
                   /\ pc' = [pc EXCEPT ![s] = "idle"]
                   /\ object_id' = [object_id EXCEPT ![s] = 0]
                   /\ UNCHANGED <<db, lock, form, written>>
              ELSE /\ lock = "none"
                   /\ IF PrimaryKeyFree(db[t], row)
                      THEN /\ data' = [data EXCEPT ![s] = d]
                           /\ written' = [written EXCEPT ![s] = [NoRows EXCEPT ![t] = {row}]]
                           /\ db' = execute_insert(db, t, {row})
                           /\ lock' = s
                           /\ pc' = [pc EXCEPT ![s] = "main"]
                           /\ object_id' = [object_id EXCEPT ![s] = row.id]
                           /\ result' = [result EXCEPT ![s] = "none"]
                           /\ UNCHANGED form
                      ELSE /\ result' = [result EXCEPT ![s] = "IntegrityError"]
                           /\ data' = [data EXCEPT ![s] = [NoData EXCEPT !.is_new = is_new]]
                           /\ pc' = [pc EXCEPT ![s] = "idle"]
                           /\ object_id' = [object_id EXCEPT ![s] = 0]
                           /\ UNCHANGED <<db, lock, form, written>>
    /\ UNCHANGED <<calls, dbml, snapshot, args, all_elements, elements>>

\* handle_submit, Part 2: the link element of the people form
ReconcileLinks(s, cap) ==
    /\ pc[s] = "main"
    /\ form[s].table = PEOPLE
    /\ LET rows == TxnRows(s, link_table)
       IN  \E current_links \in CurrentLinkMaps(rows, source_field, target_field, object_id[s]) :
           \E order \in Perms(data[s].links \ DOMAIN current_links) :
              LET new == reconcile_rows(rows, source_field, target_field, object_id[s],
                                        data[s].links, current_links, order, person_id(s))
              IN  /\ removable(current_links, data[s].links)
                  /\ WithinBounds(link_table, new, cap)
                  /\ written' = [written EXCEPT ![s][link_table] = @ \cup new]
                  /\ db' = execute_insert(db, link_table, new)
    /\ pc' = [pc EXCEPT ![s] = "linked"]
    /\ data' = [data EXCEPT ![s].reconciled = TRUE]
    /\ UNCHANGED <<lock, form, object_id, result, calls, dbml, snapshot, args, all_elements, elements>>

\* conn.commit(): every row of the submission becomes visible at once; the
\* form-refresh output clears the form
Commit(s) ==
    /\ \/ pc[s] = "linked"
       \/ pc[s] = "main" /\ form[s].table = LINKS
    /\ db' = [t \in Tables |-> db[t] \cup written[s][t]]
    /\ lock' = "none"
    /\ pc' = [pc EXCEPT ![s] = "idle"]
    /\ result' = [result EXCEPT ![s] = "none"]
    /\ form' = [form EXCEPT ![s] = NoForm]
    /\ object_id' = [object_id EXCEPT ![s] = 0]
    /\ data' = [data EXCEPT ![s] = NoData]
    /\ written' = [written EXCEPT ![s] = NoRows]
    /\ calls' = IF s \in Single /\ data[s].reconciled
                THEN <<calls[2], [source |-> object_id[s], links |-> data[s].links,
                                  rows |-> written[s][link_table]]>>
                ELSE calls
    /\ UNCHANGED <<dbml, snapshot, args, all_elements, elements>>

\* an exception raised in Part 2 (or the end of the process) before
\* conn.commit(): the connection is dropped and its transaction rolled back
SubmitRaises(s) ==
    /\ pc[s] \in {"main", "linked"}
    /\ form[s].table = PEOPLE
    /\ lock' = "none"
    /\ pc' = [pc EXCEPT ![s] = "idle"]
    /\ result' = [result EXCEPT ![s] = "none"]
    /\ object_id' = [object_id EXCEPT ![s] = 0]
    /\ data' = [data EXCEPT ![s] = NoData]
    /\ written' = [written EXCEPT ![s] = NoRows]
    /\ UNCHANGED <<db, form, calls, dbml, snapshot, args, all_elements, elements>>

\* the people form, used by two sessions at once
Next ==
    \E s \in Concurrent :
        \/ \E oid \in 0..MaxId : LoadForm(s, PEOPLE, oid)
        \/ ReadMaxId(s)
        \/ \E st \in Status, sel \in SUBSET Targets, absent \in {"none", "status"} :
                InsertMain(s, st, sel, 0, 0, absent, MaxVersion)
        \/ ReconcileLinks(s, MaxVersion)
        \/ Commit(s)
        \/ SubmitRaises(s)

Spec == Init /\ [][Next]_vars

\* every form of the configuration (node forms and the link-table form behind
\* an edge), used by one session
NextForms ==
    \E s \in {"s1"} :
        \/ \E oid \in 0..MaxId : LoadForm(s, PEOPLE, oid)
        \/ \E oid \in 0..MaxLinkId : LoadForm(s, LINKS, oid)
        \/ ReadMaxId(s)
        \/ \E sel \in SUBSET Targets :
                form[s].table = PEOPLE /\ InsertMain(s, "active", sel, 0, 0, "none", MaxVersion)
        \/ \E p \in 1..MaxId, o \in 0..NumTargets, absent \in {"none", "person_id"} :
                form[s].table = LINKS /\ InsertMain(s, "active", {}, p, o, absent, MaxVersion)
        \/ ReconcileLinks(s, MaxVersion)
        \/ Commit(s)
        \/ SubmitRaises(s)

SpecForms == Init /\ [][NextForms]_vars

\* the people form, used by one session
NextSeq ==
    \E s \in Single :
        \/ \E oid \in 0..MaxId : LoadForm(s, PEOPLE, oid)
        \/ ReadMaxId(s)
        \/ \E st \in Status, sel \in SUBSET Targets :
                InsertMain(s, st, sel, 0, 0, "none", MaxSeqVersion)
        \/ ReconcileLinks(s, MaxSeqVersion)
        \/ Commit(s)
        \/ SubmitRaises(s)

SpecSeq == Init /\ [][NextSeq]_vars

\* the people form and the link-table form behind an edge, used by one
\* session, with link histories long enough for a link record to be created,
\* edited through the edge form and then reconciled
NextEdges ==
    \E s \in {"s1"} :
        \/ \E oid \in 0..MaxId : LoadForm(s, PEOPLE, oid)
        \/ \E oid \in 1..MaxLinkId : LoadForm(s, LINKS, oid)
        \/ ReadMaxId(s)
        \/ \E sel \in SUBSET Targets :
                form[s].table = PEOPLE /\ InsertMain(s, "active", sel, 0, 0, "none", MaxVersion)
        \/ \E p \in 1..MaxId, o \in 1..NumTargets :
                form[s].table = LINKS /\ InsertMain(s, "active", {}, p, o, "none", MaxEdgeVersion)
        \/ ReconcileLinks(s, MaxEdgeVersion)
        \/ Commit(s)
        \/ SubmitRaises(s)

SpecEdges == Init /\ [][NextEdges]_vars

\* ------------------------------------------------------------------ the earlier revision
\* colabratorium handle_submit, Part 2: skipped for a new object; the current
\* links are read over every version; created_by is the literal 1
LegacyReconcileLinks(s, cap) ==
    /\ pc[s] = "main"
    /\ form[s].table = PEOPLE
    /\ IF data[s].is_new
       THEN UNCHANGED <<db, written, data>>
       ELSE LET rows == TxnRows(s, link_table)
            IN  \E current_links \in LegacyCurrentLinkMaps(rows, source_field, target_field, object_id[s]) :
                \E order \in Perms(data[s].links \ DOMAIN current_links) :
                   LET new == reconcile_rows(rows, source_field, target_field, object_id[s],
                                             data[s].links, current_links, order, 1)
                   IN  /\ WithinBounds(link_table, new, cap)
                       /\ written' = [written EXCEPT ![s][link_table] = @ \cup new]
                       /\ db' = execute_insert(db, link_table, new)
                       /\ data' = [data EXCEPT ![s].reconciled = TRUE]
    /\ pc' = [pc EXCEPT ![s] = "linked"]
    /\ UNCHANGED <<lock, form, object_id, result, calls, dbml, snapshot, args, all_elements, elements>>

NextLegacy ==
    \E s \in Single :
        \/ \E oid \in 0..MaxId : LoadForm(s, PEOPLE, oid)
        \/ ReadMaxId(s)
        \/ \E st \in Status, sel \in SUBSET Targets :
                InsertMain(s, st, sel, 0, 0, "none", MaxSeqVersion)
        \/ LegacyReconcileLinks(s, MaxSeqVersion)
        \/ Commit(s)
        \/ SubmitRaises(s)

SpecLegacy == Init /\ [][NextLegacy]_vars

\* ------------------------------------------------------------------ db.py helper API
\* update_links(cur, table_name, record_id, links) for one link definition,
\* committed by its caller: DELETE the rows of the source, then INSERT one row
\* per value with only source, target, status and timestamp set
update_links(record_id, vals) ==
    /\ lock = "none"
    /\ LET kept == {r \in db[link_table] : r[source_field] # record_id}
           new  == {[id |-> 0, version |-> 0, status |-> "active", created_by |-> 0,
                     person_id |-> record_id, organisation_id |-> tg] : tg \in vals}
       IN  db' = [db EXCEPT ![link_table] = kept \cup new]
    /\ UNCHANGED <<lock, pc, form, object_id, data, written, result, calls, dbml, snapshot, args, all_elements, elements>>

NextDb ==
    \/ \E s \in {"s1"} :
        \/ \E oid \in 0..MaxId : LoadForm(s, PEOPLE, oid)
        \/ ReadMaxId(s)
        \/ \E st \in Status, sel \in SUBSET Targets :
                InsertMain(s, st, sel, 0, 0, "none", MaxVersion)
        \/ ReconcileLinks(s, MaxVersion)
        \/ Commit(s)
        \/ SubmitRaises(s)
    \/ \E record_id \in 1..MaxId, vals \in SUBSET Targets : update_links(record_id, vals)

SpecDb == Init /\ [][NextDb]_vars

\* ------------------------------------------------------------------ build_elements_from_db
\* the schema the graph is built from: four of the node tables and one link table
ORGANISATIONS == "organisations"
INITIATIVES   == "initiatives"
CONTRACTS     == "contracts"
NODE_TABLES   == {PEOPLE, ORGANISATIONS, INITIATIVES, CONTRACTS}
SchemaTables  == NODE_TABLES \cup {LINKS}

\* the columns of the link table that the edge construction looks at, in the
\* order of the table's declaration
Columns(t) ==
    IF t = LINKS THEN <<"id", "version", "status", "organisation_id", "person_id", "created_by">>
    ELSE IF t = INITIATIVES THEN <<"id", "version", "responsible_person", "status">>
    ELSE IF t = CONTRACTS
    THEN <<"id", "version", "organisation_person", "responsible_person", "status", "created_by">>
    ELSE <<"id", "version", "status">>

\* dbml.refs: child table, child column and parent table of each foreign key;
\* every parent column is id
Refs ==
    { [table |-> INITIATIVES, col |-> "responsible_person", parent |-> PEOPLE],
      [table |-> CONTRACTS, col |-> "organisation_person", parent |-> PEOPLE],
      [table |-> CONTRACTS, col |-> "responsible_person", parent |-> PEOPLE],
      [table |-> LINKS, col |-> "organisation_id", parent |-> ORGANISATIONS],
      [table |-> LINKS, col |-> "person_id", parent |-> PEOPLE] }

\* the schemas: created_by is a plain column, or is declared as a foreign
\* key to people as well
Schemas ==
    { [refs |-> Refs],
      [refs |-> Refs \cup {[table |-> LINKS, col |-> "created_by", parent |-> PEOPLE],
                           [table |-> CONTRACTS, col |-> "created_by", parent |-> PEOPLE]}] }

\* fk_map[(child_table, child_col)] = parent table
fk_map(refs) == [k \in {<<r.table, r.col>> : r \in refs} |->
                    (CHOOSE r \in refs : r.table = k[1] /\ r.col = k[2]).parent]

\* the foreign-key column names in the order of Python's string comparison
ColumnNames ==
    <<"created_by", "organisation_id", "organisation_person", "person_id", "responsible_person">>

\* child_col_name > other_fk_col.name
name_gt(a, b) ==
    (CHOOSE i \in DOMAIN ColumnNames : ColumnNames[i] = a)
        > (CHOOSE i \in DOMAIN ColumnNames : ColumnNames[i] = b)

\* SQL NULL, NaN after pandas has read the column; only the integer columns
\* of the stores hold it
NULL == 0
isna(c, v) == c # "status" /\ v = NULL

\* degree = None
NoDegree == -1

\* db_df: sort_values(['id', 'version']).groupby('id', as_index=False).last():
\* one row per id whose value in each column is the last one, in version
\* order, that is not NaN (GroupBy.last skips missing values column by column)
db_df(rows) ==
    IF rows = {} THEN {}
    ELSE LET cols == DOMAIN (CHOOSE r \in rows : TRUE)
             last(id, c) ==
                 LET valid == {r \in rows : r.id = id /\ ~ isna(c, r[c])}
                 IN  IF valid = {} THEN NULL
                     ELSE (CHOOSE r \in valid : \A q \in valid : q.version <= r.version)[c]
         IN  {[c \in cols |-> IF c = "id" THEN id ELSE last(id, c)] : id \in Ids(rows)}

_filter_deleted(df, include_deleted) ==
    IF include_deleted THEN df ELSE {r \in df : r.status # "deleted"}

\* a build that gives up at the first query that fails
dataframes_abort(snap, include_deleted) ==
    [t \in SchemaTables |->
        IF SchemaTables \subseteq DOMAIN snap
        THEN _filter_deleted(db_df(snap[t]), include_deleted) ELSE {}]

\* dataframes[table.name] for every table of the schema. pd.read_sql_query
\* raises for a table the database does not have; db_df catches the exception
\* and returns an empty frame
dataframes(snap, include_deleted) ==
    [t \in SchemaTables |->
        IF t \in DOMAIN snap THEN _filter_deleted(db_df(snap[t]), include_deleted) ELSE {}]

\* the node id f"{table_name}-{int(row['id'])}" is the pair <<table_name, id>>
make_node(row, table_name) ==
    [id |-> <<table_name, row.id>>, type |-> table_name, properties |-> row]

build_nodes(dfs) == UNION {{make_node(r, t) : r \in dfs[t]} : t \in NODE_TABLES}

\* an add_edge that does not look at link_status
add_edge_any_status(existing_node_ids, src_table, src_obj_id, tgt_table, tgt_obj_id, label, link_table_name, link_obj_id, link_status) ==
    LET src_id  == <<src_table, src_obj_id>>
        tgt_id  == <<tgt_table, tgt_obj_id>>
        is_link == link_table_name # "" /\ link_obj_id # NULL
    IN  IF \/ src_obj_id = NULL \/ tgt_obj_id = NULL
           \/ src_id \notin existing_node_ids \/ tgt_id \notin existing_node_ids
           \/ label = "created by"
        THEN {}
        ELSE {[id         |-> IF is_link THEN <<link_table_name, link_obj_id>>
                              ELSE <<"fk", src_id, tgt_id>>,
               source     |-> src_id,
               target     |-> tgt_id,
               label      |-> label,
               status     |-> link_status,
               table_name |-> IF is_link THEN link_table_name ELSE "",
               object_id  |-> IF is_link THEN link_obj_id ELSE NULL]}

\* an add_edge that does not look the endpoints up in existing_node_ids
add_edge_unchecked(existing_node_ids, src_table, src_obj_id, tgt_table, tgt_obj_id, label, link_table_name, link_obj_id, link_status) ==
    LET src_id  == <<src_table, src_obj_id>>
        tgt_id  == <<tgt_table, tgt_obj_id>>
        is_link == link_table_name # "" /\ link_obj_id # NULL
    IN  IF \/ link_status = "deleted"
           \/ src_obj_id = NULL \/ tgt_obj_id = NULL
           \/ label = "created by"
        THEN {}
        ELSE {[id         |-> IF is_link THEN <<link_table_name, link_obj_id>>
                              ELSE <<"fk", src_id, tgt_id>>,
               source     |-> src_id,
               target     |-> tgt_id,
               label      |-> label,
               status     |-> link_status,
               table_name |-> IF is_link THEN link_table_name ELSE "",
               object_id  |-> IF is_link THEN link_obj_id ELSE NULL]}

\* add_edge: the edge it returns, if any. A link table "" stands for None; an
\* edge without the table_name and object_id keys has "" and NULL there.
add_edge(existing_node_ids, src_table, src_obj_id, tgt_table, tgt_obj_id, label, link_table_name, link_obj_id, link_status) ==
    LET src_id  == <<src_table, src_obj_id>>
        tgt_id  == <<tgt_table, tgt_obj_id>>
        is_link == link_table_name # "" /\ link_obj_id # NULL
    IN  IF \/ link_status = "deleted"
           \/ src_obj_id = NULL \/ tgt_obj_id = NULL
           \/ src_id \notin existing_node_ids \/ tgt_id \notin existing_node_ids
           \/ label = "created by"
        THEN {}
        ELSE {[id         |-> IF is_link THEN <<link_table_name, link_obj_id>>
                              ELSE <<"fk", src_id, tgt_id>>,
               source     |-> src_id,
               target     |-> tgt_id,
               label      |-> label,
               status     |-> link_status,
               table_name |-> IF is_link THEN link_table_name ELSE "",
               object_id  |-> IF is_link THEN link_obj_id ELSE NULL]}

\* child_col_name.replace('_', ' ').replace('id', '')
fk_label(col) ==
    IF col = "responsible_person" THEN "responsible person"
    ELSE IF col = "organisation_person" THEN "organisation person"
    ELSE IF col = "created_by" THEN "created by"
    ELSE col

\* child_table.name.replace('_links', '').replace('_', ' '): the rows of the
\* link table have no type
link_label(t) == IF t = LINKS THEN "organisation people" ELSE t

\* the first column of the table, other than child_col, that is a foreign
\* key; "" when there is none
other_fk_col(refs, t, child_col) ==
    LET cs == Columns(t)
        fk == {i \in DOMAIN cs : cs[i] # child_col /\ <<t, cs[i]>> \in DOMAIN fk_map(refs)}
    IN  IF fk = {} THEN "" ELSE cs[CHOOSE i \in fk : \A j \in fk : i <= j]

\* the edges one pass of "for ref in dbml.refs" appends
ref_edges(refs, ref, dfs, existing_node_ids) ==
    IF ref.table \in NODE_TABLES
    THEN \* Case 1: direct foreign key of a node table
         UNION {add_edge(existing_node_ids, ref.parent, row[ref.col], ref.table, row.id,
                         fk_label(ref.col), "", NULL, row.status)
                   : row \in {r \in dfs[ref.table] : r[ref.col] # NULL}}
    ELSE \* Case 2: link table
         LET other == other_fk_col(refs, ref.table, ref.col)
         IN  IF other = "" THEN {}
             ELSE IF name_gt(ref.col, other) THEN {}
             ELSE UNION {add_edge(existing_node_ids, fk_map(refs)[<<ref.table, other>>], row[other],
                                  ref.parent, row[ref.col], link_label(ref.table),
                                  ref.table, row.id, row.status)
                            : row \in dfs[ref.table]}

build_edges(refs, dfs, existing_node_ids) ==
    UNION {ref_edges(refs, ref, dfs, existing_node_ids) : ref \in refs}

\* all_elements = all_nodes + all_edges
build_all(refs, snap, include_deleted) ==
    LET dfs   == dataframes(snap, include_deleted)
        nodes == build_nodes(dfs)
    IN  [nodes |-> nodes, edges |-> build_edges(refs, dfs, {n.id : n \in nodes}), built |-> TRUE]

\* the neighbours of a node in nx.Graph (undirected)
neighbors(edges, n) ==
    {e.target : e \in {x \in edges : x.source = n}}
        \cup {e.source : e \in {x \in edges : x.target = n}}

\* a traversal that does not stop at the radius
ego_graph_unbounded(edges, n, radius) ==
    LET grow[k \in Nat] ==
            IF k = 0 THEN {n}
            ELSE grow[k - 1] \cup UNION {neighbors(edges, m) : m \in grow[k - 1]}
    IN  grow[Cardinality(edges)]

\* nx.ego_graph(G, n, radius).nodes(): breadth-first from n, cut off at radius
RECURSIVE ego_graph(_, _, _)
ego_graph(edges, n, radius) ==
    IF radius <= 0 THEN {n}
    ELSE LET inner == ego_graph(edges, n, radius - 1)
         IN  inner \cup UNION {neighbors(edges, m) : m \in inner}

\* 3. Apply Degree Filter
degree_filter(all, people_selected, degree) ==
    IF people_selected # {} /\ degree # NoDegree
    THEN LET start_nodes   == {pid \in people_selected : pid \in {n.id : n \in all.nodes}}
             nodes_to_keep == UNION {ego_graph(all.edges, s, degree) : s \in start_nodes}
             nodes         == {n \in all.nodes : n.id \in nodes_to_keep}
             node_ids      == {n.id : n \in nodes}
         IN  [all EXCEPT !.nodes = nodes,
                         !.edges = {e \in all.edges : e.source \in node_ids /\ e.target \in node_ids}]
    ELSE all

\* 4. Apply Node Type Filter: "if node_types:" is false for None and for []
node_type_filter(final, node_types) ==
    IF node_types # {}
    THEN LET nodes    == {n \in final.nodes : n.type \in node_types}
             node_ids == {n.id : n \in nodes}
         IN  [final EXCEPT !.nodes = nodes,
                           !.edges = {e \in final.edges : e.source \in node_ids /\ e.target \in node_ids}]
    ELSE final

\* one call of build_elements_from_db on the rows the tables hold. The empty
\* set stands for both None and [] of node_types and people_selected.
build_elements_from_db(include_deleted, node_types, people_selected, degree) ==
    /\ ~ elements.built
    /\ args' = [include_deleted |-> include_deleted, node_types |-> node_types,
                people_selected |-> people_selected, degree |-> degree]
    /\ all_elements' = build_all(dbml.refs, snapshot, include_deleted)
    /\ elements' = node_type_filter(degree_filter(all_elements', people_selected, degree),
                                    node_types)
    /\ UNCHANGED <<db, lock, pc, form, object_id, data, written, result, calls, dbml, snapshot>>

\* ------------------------------------------------------------------ stores the graph is built from
\* the rows of one id whose versions 1, 2, ... hold the fields of h
rows_of(id, h) == {[id |-> id, version |-> i] @@ h[i] : i \in DOMAIN h}

\* an entity that was created, and possibly deleted afterwards
Lifetimes == {<<[status |-> "active"]>>, <<[status |-> "active"], [status |-> "deleted"]>>}

\* people: person 1 exists, the others may
GraphPeople ==
    {UNION {rows_of(id, f[id]) : id \in 1..MaxId} :
        f \in {g \in [1..MaxId -> Lifetimes \cup {<<>>}] : g[1] # <<>>}}

GraphOrganisations == {rows_of(1, h) : h \in Lifetimes}

\* initiative 1: created with a responsible person, then possibly edited once
\* (another or no responsible person, or deleted)
GraphInitiatives ==
    {rows_of(1, h) :
        h \in {<<[status |-> "active", responsible_person |-> p]>> : p \in 1..MaxId}
              \cup {<<[status |-> "active", responsible_person |-> p],
                      [status |-> st, responsible_person |-> q]>> :
                          p \in 1..MaxId, st \in Status, q \in 0..MaxId}}

\* link record 1 joins a person to organisation 1 and may be deleted again;
\* the further link records exist or not
GraphLinks ==
    {rows_of(1, h) \cup more :
        h \in {<<[status |-> "active", organisation_id |-> 1, person_id |-> p, created_by |-> c]>> :
                    p \in 1..MaxId, c \in {NULL, 1}}
              \cup {<<[status |-> "active", organisation_id |-> 1, person_id |-> p, created_by |-> c],
                      [status |-> "deleted", organisation_id |-> 1, person_id |-> p, created_by |-> c]>> :
                    p \in 1..MaxId, c \in {NULL, 1}},
        more \in {UNION {rows_of(id, f[id]) : id \in 2..MaxLinkId} :
                    f \in [2..MaxLinkId ->
                             {<<>>} \cup {<<[status |-> "active", organisation_id |-> 1,
                                             person_id |-> p, created_by |-> NULL]>> : p \in 1..MaxId}]}}

InitGraph ==
    /\ NoSessions
    /\ dbml \in Schemas
    /\ \E p \in GraphPeople, o \in GraphOrganisations, i \in GraphInitiatives, l \in GraphLinks :
          snapshot = [t \in SchemaTables |->
                         IF t = PEOPLE THEN p ELSE IF t = ORGANISATIONS THEN o
                         ELSE IF t = INITIATIVES THEN i ELSE IF t = LINKS THEN l ELSE {}]
    /\ args = NoArgs
    /\ all_elements = NoGraph
    /\ elements = NoGraph

NextGraph ==
    \E include_deleted \in BOOLEAN, node_types \in {{}, {PEOPLE, INITIATIVES}},
       people_selected \in {{}, {<<PEOPLE, 1>>}}, degree \in {NoDegree, 1} :
        build_elements_from_db(include_deleted, node_types, people_selected, degree)

SpecGraph == InitGraph /\ [][NextGraph]_vars

\* contract 1: created by person 1 with or without an organisation person and
\* a responsible person, then possibly edited once or deleted
GraphContracts ==
    {rows_of(1, h) :
        h \in {<<[status |-> "active", organisation_person |-> a, responsible_person |-> b,
                  created_by |-> 1]>> : a \in 0..MaxId, b \in 0..MaxId}
              \cup {<<[status |-> "active", organisation_person |-> a, responsible_person |-> b,
                       created_by |-> 1],
                      [status |-> st, organisation_person |-> c, responsible_person |-> d,
                       created_by |-> 1]>> :
                          a \in 0..MaxId, b \in 0..MaxId, st \in Status,
                          c \in 0..MaxId, d \in 0..MaxId}}

InitContracts ==
    /\ NoSessions
    /\ dbml \in Schemas
    /\ \E p \in GraphPeople, c \in GraphContracts :
          snapshot = [t \in SchemaTables |->
                         IF t = PEOPLE THEN p ELSE IF t = CONTRACTS THEN c ELSE {}]
    /\ args = NoArgs
    /\ all_elements = NoGraph
    /\ elements = NoGraph

NextContracts ==
    \E include_deleted \in BOOLEAN, node_types \in {{}, {PEOPLE, CONTRACTS}} :
        build_elements_from_db(include_deleted, node_types, {}, NoDegree)

SpecContracts == InitContracts /\ [][NextContracts]_vars

\* stores of active records only: every person, organisation 1, initiatives
\* with or without a responsible person, link records between people and
\* organisation 1
FilterInitiatives ==
    {UNION {rows_of(id, <<[status |-> "active", responsible_person |-> f[id]]>>) : id \in 1..MaxId} :
        f \in [1..MaxId -> 0..MaxId]}

FilterLinks ==
    {UNION {rows_of(id, f[id]) : id \in 1..MaxLinkId} :
        f \in [1..MaxLinkId ->
                 {<<>>} \cup {<<[status |-> "active", organisation_id |-> 1,
                                 person_id |-> p, created_by |-> NULL]>> : p \in 1..MaxId}]}

InitFilter ==
    /\ NoSessions
    /\ dbml = [refs |-> Refs]
    /\ \E i \in FilterInitiatives, l \in FilterLinks :
          snapshot = [t \in SchemaTables |->
                         IF t = PEOPLE
                         THEN UNION {rows_of(id, <<[status |-> "active"]>>) : id \in 1..MaxId}
                         ELSE IF t = ORGANISATIONS THEN rows_of(1, <<[status |-> "active"]>>)
                         ELSE IF t = INITIATIVES THEN i ELSE IF t = LINKS THEN l ELSE {}]
    /\ args = NoArgs
    /\ all_elements = NoGraph
    /\ elements = NoGraph

NextFilter ==
    \E node_types \in SUBSET {PEOPLE, ORGANISATIONS, INITIATIVES}, people_selected \in SUBSET {<<PEOPLE, id>> : id \in 1..MaxId},
       degree \in {NoDegree} \cup 0..MaxRadius :
        build_elements_from_db(FALSE, node_types, people_selected, degree)

SpecFilter == InitFilter /\ [][NextFilter]_vars

\* the same stores, with an initiative among the seeds
NextSeeds ==
    \E people_selected \in SUBSET ({<<PEOPLE, id>> : id \in 1..MaxId} \cup {<<INITIATIVES, MaxId>>}),
       degree \in {NoDegree} \cup 0..MaxRadius :
        build_elements_from_db(FALSE, {}, people_selected, degree)

SpecSeeds == InitFilter /\ [][NextSeeds]_vars

\* the same stores in a database that lacks one table of the schema, so that
\* the query for it fails
InitFailing ==
    /\ NoSessions
    /\ dbml = [refs |-> Refs]
    /\ \E i \in FilterInitiatives, l \in FilterLinks, failing \in SchemaTables :
          snapshot = [t \in SchemaTables \ {failing} |->
                         IF t = PEOPLE
                         THEN UNION {rows_of(id, <<[status |-> "active"]>>) : id \in 1..MaxId}
                         ELSE IF t = ORGANISATIONS THEN rows_of(1, <<[status |-> "active"]>>)
                         ELSE IF t = INITIATIVES THEN i ELSE IF t = LINKS THEN l ELSE {}]
    /\ args = NoArgs
    /\ all_elements = NoGraph
    /\ elements = NoGraph

NextFailing ==
    \E include_deleted \in BOOLEAN, node_types \in {{}, {PEOPLE, INITIATIVES}},
       people_selected \in {{}, {<<PEOPLE, 1>>}}, degree \in {NoDegree, 1} :
        build_elements_from_db(include_deleted, node_types, people_selected, degree)

SpecFailing == InitFailing /\ [][NextFailing]_vars

\* ------------------------------------------------------------------ a self-referential link table
\* initiative_initiative_links(id, version, timestamp, status, parent_id,
\* child_id, type, created_by): both foreign keys name initiatives
SELF_LINKS == "initiative_initiative_links"
SelfTables == {INITIATIVES, SELF_LINKS}
NoSelfRows == [t \in SelfTables |-> {}]
Roles == {"parents", "children"}

\* the two dropdowns of a self-referencing link table: "Parents" reads and
\* writes with source_col = c_col and target_col = p_col, "Children" with
\* source_col = p_col and target_col = c_col
self_store(role) ==
    IF role = "parents"
    THEN [link_table |-> SELF_LINKS, source_field |-> "child_id", target_field |-> "parent_id"]
    ELSE [link_table |-> SELF_LINKS, source_field |-> "parent_id", target_field |-> "child_id"]

other_role(role) == IF role = "parents" THEN "children" ELSE "parents"

NoSelfData == [parents |-> {}, children |-> {}, extra_elements |-> {}]

\* a store of MaxId initiatives created through the form, none linked yet
InitSelf ==
    /\ db = [t \in SelfTables |->
                IF t = INITIATIVES
                THEN {[id |-> i, version |-> 1, status |-> "active", created_by |-> person_id("s3")] :
                          i \in 1..MaxId}
                ELSE {}]
    /\ lock = "none"
    /\ pc = [s \in Single |-> "idle"]
    /\ form = [s \in Single |-> NoForm]
    /\ object_id = [s \in Single |-> 0]
    /\ data = [s \in Single |-> NoSelfData]
    /\ written = [s \in Single |-> NoSelfRows]
    /\ result = [s \in Single |-> "none"]
    /\ calls = <<NoCall, NoCall>>
    /\ dbml = [refs |-> {}]
    /\ snapshot = NoSnapshot
    /\ args = NoArgs
    /\ all_elements = NoGraph
    /\ elements = NoGraph

\* the targets get_latest_entry puts into a link element of the form:
\* data[element] = list(currently_linked_ids)
get_latest_entry(rows, source_col, target_col, oid) ==
    {DOMAIN m : m \in CurrentLinkMaps(rows, source_col, target_col, oid)}

\* load_form of the initiatives form for a stored initiative
SelfLoadForm(s, oid) ==
    /\ pc[s] = "idle"
    /\ oid \in Ids(db[INITIATIVES])
    /\ LET rec == get_latest_record(db[INITIATIVES], oid)
       IN  /\ rec # {}
           /\ form' = [form EXCEPT ![s] = [table |-> INITIATIVES, id |-> oid,
                                           version |-> (CHOOSE r \in rec : TRUE).version]]
           /\ form'[s] # form[s]
    /\ data' = [data EXCEPT ![s] = NoSelfData]
    /\ UNCHANGED <<db, lock, pc, object_id, written, result, calls, dbml, snapshot, args, all_elements, elements>>

\* handle_submit, Part 1, for an edit of an initiative: the submitted values
\* of the two link elements are kept in data, the main row is INSERTed
SelfInsertMain(s, parents, children) ==
    /\ pc[s] = "idle"
    /\ form[s].table = INITIATIVES
    /\ lock = "none"
    /\ LET v == main_values(FALSE, 0, form[s], "active")
           row == main_row(PEOPLE, v, person_id(s), 0, 0)
       IN  /\ row.version <= MaxSeqVersion
           /\ PrimaryKeyFree(db[INITIATIVES], row)
           /\ written' = [written EXCEPT ![s] = [NoSelfRows EXCEPT ![INITIATIVES] = {row}]]
           /\ object_id' = [object_id EXCEPT ![s] = row.id]
    /\ data' = [data EXCEPT ![s] = [parents |-> parents, children |-> children,
                                    extra_elements |-> Roles]]
    /\ lock' = s
    /\ pc' = [pc EXCEPT ![s] = "main"]
    /\ UNCHANGED <<db, form, result, calls, dbml, snapshot, args, all_elements, elements>>

\* handle_submit, Part 2, one pass of "for element in extra_elements" for a
\* link element of the self-referential table
SelfReconcileLinks(s, role) ==
    /\ pc[s] = "main"
    /\ role \in data[s].extra_elements
    /\ LET st   == self_store(role)
           rows == db[SELF_LINKS] \cup written[s][SELF_LINKS]
       IN  \E current_links \in CurrentLinkMaps(rows, st.source_field, st.target_field, object_id[s]) :
           \E order \in Perms(data[s][role] \ DOMAIN current_links) :
              LET new == reconcile_rows(rows, st.source_field, st.target_field, object_id[s],
                                        data[s][role], current_links, order, person_id(s))
              IN  /\ removable(current_links, data[s][role])
                  /\ \A r \in new : r.version <= MaxVersion /\ r.id <= MaxLinkId
                  /\ written' = [written EXCEPT ![s][SELF_LINKS] = @ \cup new]
    /\ data' = [data EXCEPT ![s].extra_elements = @ \ {role}]
    /\ UNCHANGED <<db, lock, pc, form, object_id, result, calls, dbml, snapshot, args, all_elements, elements>>

\* conn.commit() after the last element
SelfCommit(s) ==
    /\ pc[s] = "main"
    /\ data[s].extra_elements = {}
    /\ db' = [t \in SelfTables |-> db[t] \cup written[s][t]]
    /\ lock' = "none"
    /\ pc' = [pc EXCEPT ![s] = "idle"]
    /\ form' = [form EXCEPT ![s] = NoForm]
    /\ object_id' = [object_id EXCEPT ![s] = 0]
    /\ data' = [data EXCEPT ![s] = NoSelfData]
    /\ written' = [written EXCEPT ![s] = NoSelfRows]
    /\ UNCHANGED <<result, calls, dbml, snapshot, args, all_elements, elements>>

\* the initiatives form with its Parents and Children dropdowns, one session
NextSelf ==
    \E s \in Single :
        \/ \E oid \in 1..MaxId : SelfLoadForm(s, oid)
        \/ \E parents \in SUBSET (1..MaxId), children \in SUBSET (1..MaxId) :
                SelfInsertMain(s, parents, children)
        \/ \E role \in Roles : SelfReconcileLinks(s, role)
        \/ SelfCommit(s)

SpecSelf == InitSelf /\ [][NextSelf]_vars

\* ------------------------------------------------------------------ the shared-visited traversal
\* breadth-first expansion that skips the nodes already in visited: the
\* frontier at distance d expands while d is below the radius
RECURSIVE bfs_shared(_, _, _, _, _)
bfs_shared(edges, visited, frontier, d, radius) ==
    IF d >= radius \/ frontier = {} THEN visited
    ELSE LET found == UNION {neighbors(edges, m) : m \in frontier} \ visited
         IN  bfs_shared(edges, visited \cup found, found, d + 1, radius)

\* the seeds taken one after the other, each expanded from distance 0, over
\* one visited set that accumulates across the seeds
RECURSIVE shared_visited(_, _, _, _)
shared_visited(edges, order, radius, visited) ==
    IF order = <<>> THEN visited
    ELSE shared_visited(edges, Tail(order), radius,
                        bfs_shared(edges, visited \cup {Head(order)}, {Head(order)}, 0, radius))

\* all seeds enqueued at distance 0 before any node is expanded
multi_source(edges, seeds, radius) == bfs_shared(edges, seeds, seeds, 0, radius)

\* ------------------------------------------------------------------ properties
\* the row of an id with the maximum version, if its status is not deleted
Current(rows, oid) ==
    {r \in rows : r.id = oid /\ r.status # "deleted"
                  /\ \A q \in rows : q.id = oid => q.version <= r.version}

\* targets of the link records whose latest version names the source and is not deleted
ActiveTargets(rows, src) ==
    {r[target_field] : r \in {q \in rows : /\ q[source_field] = src
                                           /\ q.status # "deleted"
                                           /\ \A z \in rows : z.id = q.id => z.version <= q.version}}

\* C1: get_latest_record returns the maximum-version row of the id when it is
\* not deleted and nothing when the maximum-version row is deleted; it never
\* falls back to an older version.
C1_LatestOrAbsent ==
    \A t \in Tables : \A oid \in 1..MaxId :
        get_latest_record(db[t], oid) = Current(db[t], oid)

\* C2: every step keeps every committed row, column for column; operations
\* only add rows.
C2_AppendOnly == [][\A t \in Tables : db[t] \subseteq db'[t]]_vars

\* C3: the versions stored for an id, committed or inside a transaction, are
\* exactly 1..N, N being the number of rows of the id.
C3_VersionsContiguous ==
    \A t \in Tables : \A s \in Sessions : \A rows \in {db[t], TxnRows(s, t)} :
        \A id \in Ids(rows) :
            {r.version : r \in {q \in rows : q.id = id}} = 1..Cardinality({q \in rows : q.id = id})

C3_Witness ==
    \E a, b \in db[PEOPLE] : a.id = b.id /\ a.version = 1 /\ b.version = 2
                             /\ \E s \in Concurrent : result[s] = "IntegrityError"

\* C4: an edit submission that passes the column check inserts exactly one
\* row, with the version one above the store's maximum for the id, whatever
\* version the form carries, and with the submitted status.
C4_EditTakesStoreVersion ==
    [][\A s \in Sessions :
          (/\ pc[s] = "idle" /\ form[s].table \in Tables /\ form[s].id # 0
           /\ (pc'[s] = "main" \/ result'[s] = "IntegrityError"))
          => \E r \in written'[s][form[s].table] :
                /\ written'[s][form[s].table] = {r}
                /\ r.id = form[s].id
                /\ r.version = LatestRow(db[form[s].table], form[s].id).version + 1
                /\ r.status = data'[s].status]_vars

\* C5: a create submission inserts exactly one main row: its id is one above
\* every id of the table (1 for an empty table), its version 1, its status
\* active whatever status was submitted, and the id is the one reported.
C5_CreateInsertsFresh ==
    \A s \in Sessions :
        (pc[s] \in {"main", "linked"} /\ data[s].is_new)
        => \E r \in written[s][form[s].table] :
              /\ written[s][form[s].table] = {r}
              /\ \A q \in db[form[s].table] : q.id < r.id
              /\ r.id = 1 \/ r.id - 1 \in Ids(db[form[s].table])
              /\ r.version = 1
              /\ r.status = "active"
              /\ object_id[s] = r.id

C5_Witness ==
    \E s \in Sessions : /\ pc[s] = "main" /\ data[s].is_new
                        /\ data[s].status = "deleted"
                        /\ object_id[s] = 2 /\ db[PEOPLE] # {}

\* C6: when Part 2 of a submission is done, the targets of the link records
\* whose latest version names the submitted entity and is not deleted are
\* exactly the selected targets, for a new entity as for an existing one.
C6_LinksEqualDesired ==
    \A s \in Sessions :
        pc[s] = "linked"
        => ActiveTargets(TxnRows(s, link_table), object_id[s]) = data[s].links

\* C7: of two reconciliations committed one after the other for the same
\* source with the same selection, the second inserts no row.
C7_Idempotent ==
    (calls[1].source # 0 /\ calls[1].source = calls[2].source /\ calls[1].links = calls[2].links)
    => calls[2].rows = {}

\* C8: a reconciliation from current targets C to selection D inserts one
\* row per target of C \ D (the latest row of its link record, version + 1,
\* status deleted), one version-1 active row per target of D \ C, and no
\* other row.
C8_ExactDelta ==
    \A s \in Sessions :
        (pc[s] = "linked" /\ data[s].reconciled)
        => LET before == db[link_table]
               new == written[s][link_table]
               C == ActiveTargets(before, object_id[s])
               D == data[s].links
           IN  /\ \A tg \in C \ D :
                     \E r \in new :
                        /\ \A q \in new : q[target_field] = tg => q = r
                        /\ r[target_field] = tg
                        /\ r.id \in Ids(before)
                        /\ r = [LatestRow(before, r.id) EXCEPT !.version = @ + 1, !.status = "deleted"]
               /\ \A tg \in D \ C :
                     \E r \in new :
                        /\ \A q \in new : q[target_field] = tg => q = r
                        /\ r[target_field] = tg /\ r[source_field] = object_id[s]
                        /\ r.version = 1 /\ r.status = "active"
               /\ \A r \in new : r[target_field] \in (C \ D) \cup (D \ C)

C10_KeyErrorRejects ==
    [][\A s \in Sessions :
          (/\ data'[s] # data[s]
           /\ data'[s].absent # "none"
           /\ ~ (data'[s].is_new /\ data'[s].absent = "status"))
          => /\ result'[s] = "KeyError" /\ pc'[s] = "idle"
             /\ db' = db /\ written'[s] = NoRows]_vars

\* C10, a column whose submitted value is None: no committed row has a column
\* without a value, such a submission is rejected and inserts nothing.
C10_NoNullFill ==
    \A r \in db[LINKS] : r[source_field] # 0 /\ r[target_field] # 0

\* C11: two creations that read the same max(id): the rows of a table never
\* share (id, version); the creation whose INSERT comes first is not
\* rejected, and the one whose INSERT comes after the other's commit ends in
\* IntegrityError and adds nothing, so the allocated id keeps exactly one
\* version-1 row.
C11_RacingCreates ==
    [][/\ \A t \in Tables : \A a, b \in db'[t] :
             (a.id = b.id /\ a.version = b.version) => a = b
       /\ \A u \in Concurrent :
             (pc[u] = "alloc" /\ pc'[u] # "alloc")
             => IF object_id[u] \in Ids(db[form[u].table])
                THEN /\ result'[u] = "IntegrityError"
                     /\ db' = db /\ written'[u] = NoRows
                ELSE /\ pc'[u] = "main"
                     /\ \A o \in Concurrent \ {u} : pc'[o] \notin {"main", "linked"}]_vars

C11_Witness ==
    \E u \in Concurrent :
        /\ result[u] = "IntegrityError" /\ data[u].is_new
        /\ Cardinality(db[PEOPLE]) = 1

\* C13: get_all_records returns, for every table, exactly the maximum-version
\* rows that are not deleted: one record per current id, no older version of
\* any id and no record of an id whose latest version is deleted.
C13_AllCurrent ==
    \A t \in Tables :
        get_all_records(db[t]) = UNION {Current(db[t], oid) : oid \in Ids(db[t])}

\* C14: get_dropdown_options returns the options in strictly ascending order
\* of value, one for exactly the values whose maximum-version row is not
\* deleted, each labelled from that maximum-version row.
C14_CurrentOptions ==
    \A t \in Tables :
        LET opts == get_dropdown_options(db[t], "id", "version")
        IN  /\ \A i, j \in DOMAIN opts : i < j => opts[i].value < opts[j].value
            /\ {opts[i].value : i \in DOMAIN opts}
                   = {oid \in Ids(db[t]) : Current(db[t], oid) # {}}
            /\ \A i \in DOMAIN opts : \A r \in Current(db[t], opts[i].value) :
                   opts[i].label = ToString(r.version)

C14_Witness ==
    /\ \E r \in db[PEOPLE] : r.version = MaxVersion /\ r.status = "deleted"
                              /\ \E q \in db[PEOPLE] : q.id = r.id /\ q.status = "active"
    /\ \E r \in db[PEOPLE] : r.version = MaxVersion /\ r.status = "active"
    /\ Len(get_dropdown_options(db[PEOPLE], "id", "version")) = 1

\* a call that applied neither the degree filter nor the node type filter
Unfiltered ==
    /\ elements.built
    /\ args.node_types = {}
    /\ (args.people_selected = {} \/ args.degree = NoDegree)

\* the ids of the node tables that must have a node: without include_deleted
\* those whose maximum-version row is not deleted, with it every id with a row
NodeIds(snap, include_deleted) ==
    {<<t, id>> : t \in NODE_TABLES, id \in 1..MaxId} \cap
    UNION {{<<t, r.id>> : r \in {q \in snap[t] : include_deleted \/ Current(snap[t], q.id) # {}}}
              : t \in NODE_TABLES}

\* the node part of C12 that the code keeps: one node per expected id, none
\* for the link table
C12_NodeSet ==
    Unfiltered =>
        /\ {n.id : n \in elements.nodes} = NodeIds(snapshot, args.include_deleted)
        /\ \A n, m \in elements.nodes : n.id = m.id => n = m
        /\ \A n \in elements.nodes : n.type \in NODE_TABLES /\ n.id[1] = n.type

\* C12: build_elements_from_db emits exactly one node <<table, id>> per id of
\* a node table that is current or, with include_deleted, has any row; the
\* node's properties are the maximum-version row of the id; the link table
\* yields no node.
C12_NodesCarryLatestRow ==
    Unfiltered =>
        /\ {n.id : n \in elements.nodes} = NodeIds(snapshot, args.include_deleted)
        /\ \A n, m \in elements.nodes : n.id = m.id => n = m
        /\ \A n \in elements.nodes :
              /\ n.type \in NODE_TABLES
              /\ n.properties = LatestRow(snapshot[n.type], n.id[2])

\* C15: in every output of build_elements_from_db, whatever include_deleted,
\* people_selected, degree and node_types, the source and the target of every
\* edge are ids of nodes of the same output; the call returns although rows
\* refer to missing or filtered-out nodes.
C15_NoDanglingEdge ==
    elements.built =>
        \A e \in elements.edges :
            /\ e.source \in {n.id : n \in elements.nodes}
            /\ e.target \in {n.id : n \in elements.nodes}

C15_Witness ==
    /\ elements.built
    /\ args.people_selected # {} /\ args.degree # NoDegree
    /\ elements.edges # {}
    /\ \E row \in dataframes(snapshot, args.include_deleted)[INITIATIVES] :
          /\ row.status # "deleted"
          /\ row.responsible_person # NULL
          /\ <<PEOPLE, row.responsible_person>> \notin {n.id : n \in all_elements.nodes}

\* the edges of an output that come from link record id
LinkEdges(id) == {e \in elements.edges : e.table_name = LINKS /\ e.object_id = id}

\* one edge, from the person to the organisation, for a link record whose
\* maximum-version row is not deleted and whose endpoints are nodes, and no
\* edge for any other link record
OneEdgePerLinkRecord ==
    \A id \in 1..MaxLinkId :
        LET versions == {r \in snapshot[LINKS] : r.id = id}
            row      == LatestRow(snapshot[LINKS], id)
        IN  IF /\ versions # {}
               /\ row.status # "deleted"
               /\ <<PEOPLE, row.person_id>> \in {n.id : n \in elements.nodes}
               /\ <<ORGANISATIONS, row.organisation_id>> \in {n.id : n \in elements.nodes}
            THEN /\ Cardinality(LinkEdges(id)) = 1
                 /\ \A e \in LinkEdges(id) :
                       {e.source, e.target} = {<<PEOPLE, row.person_id>>,
                                               <<ORGANISATIONS, row.organisation_id>>}
            ELSE LinkEdges(id) = {}

\* the part of C16 the code keeps: with a link table whose only foreign keys
\* are its column pair, one edge per link record
C16_TwoForeignKeys ==
    (Unfiltered /\ dbml.refs = Refs) => OneEdgePerLinkRecord

\* C16: build_elements_from_db emits exactly one edge per link record whose
\* latest version is not deleted and whose endpoints are nodes, carrying
\* table_name and object_id of the record, also when the link table declares
\* a further foreign key such as created_by.
C16_OneEdgePerLinkRecord ==
    Unfiltered => OneEdgePerLinkRecord

\* C17: an edge is in the output only if the latest version of the row that
\* owns it (the link record, or the initiative holding responsible_person) is
\* not deleted, with include_deleted too; with include_deleted and no filter,
\* an active initiative whose responsible person exists, deleted or not,
\* yields the person's node and the edge from the person to the initiative.
C17_OwningRowDecides ==
    elements.built =>
        /\ \A e \in elements.edges :
              IF e.table_name = LINKS
              THEN LatestRow(snapshot[LINKS], e.object_id).status # "deleted"
              ELSE /\ e.target[1] = INITIATIVES
                   /\ LatestRow(snapshot[INITIATIVES], e.target[2]).status # "deleted"
        /\ (Unfiltered /\ args.include_deleted) =>
              \A id \in Ids(snapshot[INITIATIVES]) :
                  LET row == LatestRow(snapshot[INITIATIVES], id)
                  IN  (/\ row.status # "deleted"
                       /\ row.responsible_person \in Ids(snapshot[PEOPLE]))
                      => /\ <<PEOPLE, row.responsible_person>> \in {n.id : n \in elements.nodes}
                         /\ \E e \in elements.edges :
                               /\ e.source = <<PEOPLE, row.responsible_person>>
                               /\ e.target = <<INITIATIVES, id>>

C17_Witness ==
    /\ elements.built /\ args.include_deleted
    /\ \E n \in elements.nodes : n.type = PEOPLE /\ n.properties.status = "deleted"
          /\ \E e \in elements.edges : e.source = n.id /\ e.target[1] = INITIATIVES
    /\ \E r \in snapshot[LINKS] : r.status = "deleted"

\* b is at most r hops from a: a walk of at most r edges, followed edge by edge
RECURSIVE WithinHops(_, _, _, _)
WithinHops(edges, a, b, r) ==
    \/ a = b
    \/ /\ r > 0
       /\ \E e \in edges :
             \/ e.source = a /\ WithinHops(edges, e.target, b, r - 1)
             \/ e.target = a /\ WithinHops(edges, e.source, b, r - 1)

\* a call that applied the degree filter and no node type filter
DegreeFiltered ==
    /\ elements.built
    /\ args.people_selected # {} /\ args.degree # NoDegree
    /\ args.node_types = {}

\* C18: the degree filter returns exactly the nodes at hop distance <= degree
\* from some seed, so none that is degree + 1 or more hops from every seed,
\* and the edges between the nodes it returns.
C18_WithinRadius ==
    DegreeFiltered =>
        /\ elements.nodes =
              {n \in all_elements.nodes :
                  \E s \in args.people_selected :
                      /\ s \in {m.id : m \in all_elements.nodes}
                      /\ WithinHops(all_elements.edges, s, n.id, args.degree)}
        /\ elements.edges =
              {e \in all_elements.edges :
                  /\ e.source \in {n.id : n \in elements.nodes}
                  /\ e.target \in {n.id : n \in elements.nodes}}

\* the chain people-1 - organisations-1 - people-2 - initiatives-1 with seed
\* people-1: radius 2 returns the first three
C18_Witness ==
    /\ DegreeFiltered
    /\ args.people_selected = {<<PEOPLE, 1>>} /\ args.degree = 2
    /\ {n.id : n \in elements.nodes} = {<<PEOPLE, 1>>, <<ORGANISATIONS, 1>>, <<PEOPLE, 2>>}
    /\ \E e \in all_elements.edges : e.source = <<PEOPLE, 2>> /\ e.target = <<INITIATIVES, 1>>

\* b is at most r hops from seed a along a walk on which every node after the
\* seed that is left again has a type in traversable
RECURSIVE WithinHopsThrough(_, _, _, _, _, _)
WithinHopsThrough(edges, traversable, a, b, r, is_seed) ==
    \/ a = b
    \/ /\ r > 0
       /\ is_seed \/ a[1] \in traversable
       /\ \E e \in edges :
             \/ e.source = a /\ WithinHopsThrough(edges, traversable, e.target, b, r - 1, FALSE)
             \/ e.target = a /\ WithinHopsThrough(edges, traversable, e.source, b, r - 1, FALSE)

\* C19: for every selection of traversable types (the node-type-degree-filter
\* checklist) the degree filter returns the nodes reached from a seed within
\* the radius through intermediate nodes of traversable types only; a seed
\* expands whatever its type.
C19_TraversableTypes ==
    DegreeFiltered =>
        \A traversable \in SUBSET NODE_TABLES :
            elements.nodes =
                {n \in all_elements.nodes :
                    \E s \in args.people_selected :
                        /\ s \in {m.id : m \in all_elements.nodes}
                        /\ WithinHopsThrough(all_elements.edges, traversable, s, n.id,
                                             args.degree, TRUE)}

\* the nodes the degree filter leaves: those within the radius of a seed, or
\* all of them when no seed or no degree is given
AfterRadius ==
    IF args.people_selected # {} /\ args.degree # NoDegree
    THEN {n \in all_elements.nodes :
             \E s \in args.people_selected :
                 /\ s \in {m.id : m \in all_elements.nodes}
                 /\ WithinHops(all_elements.edges, s, n.id, args.degree)}
    ELSE all_elements.nodes

\* the output is the type filter over the result of the radius filter
TypeFilterAfterRadius ==
    /\ elements.nodes = {n \in AfterRadius : n.type \in args.node_types}
    /\ elements.edges =
          {e \in all_elements.edges :
              /\ e.source \in {n.id : n \in elements.nodes}
              /\ e.target \in {n.id : n \in elements.nodes}}

\* the part of C20 the code keeps: a node_types that names at least one type
C20_SomeTypes ==
    (elements.built /\ args.node_types # {}) => TypeFilterAfterRadius

\* C20: the node type filter is applied after the radius filter and keeps a
\* node iff its type is in node_types, for every node_types including the
\* empty list, which leaves no node; it keeps an edge iff both endpoints are
\* kept; hidden nodes still count as hops of the radius filter.
C20_TypeFilter ==
    elements.built => TypeFilterAfterRadius

\* a node kept by the type filter that is reached only through a hidden node
C20_HiddenHop ==
    /\ elements.built
    /\ args.node_types = {PEOPLE} /\ args.people_selected = {<<PEOPLE, 1>>} /\ args.degree = 2
    /\ {n.id : n \in elements.nodes} = {<<PEOPLE, 1>>, <<PEOPLE, 2>>}

\* the edges of an output drawn for foreign-key column col of a node table
FkEdges(ref) ==
    {e \in elements.edges : e.table_name = "" /\ e.target[1] = ref.table
                            /\ e.label = fk_label(ref.col)}

\* one edge, parent to child, for each row of rows whose column ref.col is
\* not NULL and whose endpoints are nodes, and no other edge for the column
OneEdgePerChildRow(ref, rows) ==
    LET expected == {r \in rows :
                        /\ r.status # "deleted"
                        /\ r[ref.col] # NULL
                        /\ <<ref.parent, r[ref.col]>> \in {n.id : n \in elements.nodes}
                        /\ <<ref.table, r.id>> \in {n.id : n \in elements.nodes}}
    IN  /\ {<<e.source, e.target>> : e \in FkEdges(ref)}
            = {<<(<<ref.parent, r[ref.col]>>), (<<ref.table, r.id>>)>> : r \in expected}
        /\ Cardinality(FkEdges(ref)) = Cardinality(expected)

\* the maximum-version rows of a table
LatestRows(rows) == {LatestRow(rows, id) : id \in Ids(rows)}

\* the part of C21 the code keeps: over the rows db_df hands on, one edge per
\* row for every foreign-key column of a node table other than created_by
C21_NamedColumns ==
    Unfiltered =>
        \A ref \in {r \in dbml.refs : r.table \in NODE_TABLES /\ r.col # "created_by"} :
            OneEdgePerChildRow(ref, db_df(snapshot[ref.table]))

\* when no maximum-version row has a NULL in a column that an older version
\* filled, every declared foreign key of a node table yields its edges
C21_EveryColumn ==
    (Unfiltered /\ \A t \in NODE_TABLES : db_df(snapshot[t]) = LatestRows(snapshot[t])) =>
        \A ref \in {r \in dbml.refs : r.table \in NODE_TABLES} :
            OneEdgePerChildRow(ref, LatestRows(snapshot[ref.table]))

\* C21: for every declared foreign key of a node table, whatever the name of
\* its column, build_elements_from_db emits one edge per current child row
\* whose foreign-key column is not NULL and whose endpoints are nodes, from
\* <<parent table, fk value>> to <<child table, row id>>.
C21_OneEdgePerForeignKey ==
    Unfiltered =>
        \A ref \in {r \in dbml.refs : r.table \in NODE_TABLES} :
            OneEdgePerChildRow(ref, LatestRows(snapshot[ref.table]))

\* the link records a step of session u creates: the version-1 rows it adds
\* to the rows its submission has written to the link table
AddedLinks(u) == {r \in written'[u][link_table] \ written[u][link_table] : r.version = 1}

\* the ids, versions, statuses, columns and creator of the link records a
\* reconciliation adds: ids max + 1, max + 2, ... over the rows the connection
\* sees, one record per target to add
AllocatedLinkRows(u) ==
    LET rows  == TxnRows(u, link_table)
        base  == get_max_id_from_cursor(rows)
        toAdd == data[u].links \ ActiveTargets(rows, object_id[u])
    IN  /\ {r.id : r \in AddedLinks(u)} = (base + 1)..(base + Cardinality(toAdd))
        /\ {r[target_field] : r \in AddedLinks(u)} = toAdd
        /\ Cardinality(AddedLinks(u)) = Cardinality(toAdd)
        /\ \A r \in AddedLinks(u) :
              /\ r.id \notin Ids(rows)
              /\ r.status = "active"
              /\ r[source_field] = object_id[u]
              /\ r.created_by = person_id(u)

\* the part of C22 the code keeps: everything but the type column
C22_AllocatedLinkRows ==
    [][\A u \in Concurrent : (pc[u] = "main" /\ pc'[u] = "linked") => AllocatedLinkRows(u)]_vars

\* C22: every link record a reconciliation adds has the id max(link ids) + 1
\* of the moment of its insert, version 1, status active, the source column
\* set to the submitted id, the target column to the target, created_by to
\* the acting person and, as the link table has a type column, a type.
C22_AddedLinkRows ==
    [][\A u \in Concurrent :
          (pc[u] = "main" /\ pc'[u] = "linked")
          => /\ AllocatedLinkRows(u)
             /\ \A r \in AddedLinks(u) :
                   "type" \in LinkTableColumns => "type" \in DOMAIN r]_vars

\* a reconciliation that added two link records at once
C22_TwoAdded ==
    \E u \in Concurrent :
        /\ pc[u] = "linked"
        /\ Cardinality({r \in written[u][link_table] : r.version = 1}) = 2

\* the seeds of a call that are nodes of the graph
StartNodes == args.people_selected \cap {n.id : n \in all_elements.nodes}

\* what the shared-visited traversal returns for a seed order
SharedVisited(order) == shared_visited(all_elements.edges, order, args.degree, {})

\* C23 as stated: for every graph, seed set, seed order and radius the
\* traversal over one shared visited set returns the node set of the per-seed
\* neighbourhoods that build_elements_from_db unites.
C23_SharedEqualsPerSeed ==
    DegreeFiltered =>
        \A order \in Perms(StartNodes) :
            SharedVisited(order) = {n.id : n \in elements.nodes}

\* C23 amended: the shared-visited traversal never returns a node outside the
\* per-seed union; it returns the union for a single seed, when all seeds are
\* enqueued at distance 0 before any expansion, and every node of the union is
\* returned for at least one seed order.
C23_SharedWithinPerSeed ==
    DegreeFiltered =>
        LET kept == {n.id : n \in elements.nodes}
        IN  /\ \A order \in Perms(StartNodes) :
                  /\ SharedVisited(order) \subseteq kept
                  /\ Cardinality(StartNodes) <= 1 => SharedVisited(order) = kept
            /\ multi_source(all_elements.edges, StartNodes, args.degree) = kept
            /\ UNION {SharedVisited(order) : order \in Perms(StartNodes)} = kept

\* a seed order for which the shared-visited traversal misses a node of the
\* per-seed union
C23_Witness ==
    /\ DegreeFiltered
    /\ \E order \in Perms(StartNodes) :
          /\ SharedVisited(order) # {n.id : n \in elements.nodes}
          /\ SharedVisited(order) \subseteq {n.id : n \in elements.nodes}

\* the table whose rows an edge is drawn from
OwningTable(e) == IF e.table_name # "" THEN e.table_name ELSE e.target[1]

\* C24: when the query for one table fails, build_elements_from_db returns;
\* the output has no node and no edge of that table, one node per record of
\* every other node table, and every edge of the other tables whose endpoints
\* are nodes.
C24_FailedTableIsEmpty ==
    /\ elements.built =>
          \A e \in elements.edges : OwningTable(e) \in DOMAIN snapshot
                                    /\ e.source[1] \in DOMAIN snapshot
                                    /\ e.target[1] \in DOMAIN snapshot
    /\ Unfiltered =>
          /\ {n.id : n \in elements.nodes}
                = UNION {{<<t, id>> : id \in Ids(snapshot[t])} : t \in NODE_TABLES \cap DOMAIN snapshot}
          /\ \A ref \in {r \in dbml.refs : r.table \in NODE_TABLES \cap DOMAIN snapshot} :
                OneEdgePerChildRow(ref, LatestRows(snapshot[ref.table]))
          /\ LINKS \in DOMAIN snapshot =>
                \A id \in Ids(snapshot[LINKS]) :
                    LET row == LatestRow(snapshot[LINKS], id)
                    IN  Cardinality(LinkEdges(id)) =
                            IF {<<PEOPLE, row.person_id>>, <<ORGANISATIONS, row.organisation_id>>}
                                  \subseteq {n.id : n \in elements.nodes}
                            THEN 1 ELSE 0

\* the query for people failed: the initiatives and the organisation are
\* still nodes, the edges to people are gone
C24_Witness ==
    /\ Unfiltered
    /\ PEOPLE \notin DOMAIN snapshot
    /\ snapshot[LINKS] # {}
    /\ \E r \in snapshot[INITIATIVES] : r.responsible_person # NULL
    /\ Cardinality(elements.nodes) = Cardinality(Ids(snapshot[INITIATIVES])) + 1
    /\ elements.edges = {}

\* the possible results of the current-link query of a role for entity oid
Linked(rows, role, oid) ==
    get_latest_entry(rows, self_store(role).source_field, self_store(role).target_field, oid)

\* the link table holds one active link row, parent_id = 1 and child_id = 2
OneLinkRow ==
    \E r \in db[SELF_LINKS] :
        /\ db[SELF_LINKS] = {r}
        /\ r.status = "active" /\ r.parent_id = 1 /\ r.child_id = 2

\* the four queries over the row (parent_id = 1, child_id = 2): children of 1
\* is {2}, parents of 2 is {1}, parents of 1 and children of 2 are empty
FourQueries ==
    OneLinkRow =>
        /\ get_latest_entry(db[SELF_LINKS], "parent_id", "child_id", 1) = {{2}}
        /\ get_latest_entry(db[SELF_LINKS], "child_id", "parent_id", 2) = {{1}}
        /\ Linked(db[SELF_LINKS], "parents", 1) = {{}}
        /\ Linked(db[SELF_LINKS], "children", 2) = {{}}

\* the first half of C25 alone: the results of the four queries
C25_FourQueries == FourQueries

C25_OneLinkRow == OneLinkRow

\* a step that reconciles one role of the submitted entity leaves the
\* current links of its other role as they were
RolesIndependent(s) ==
    \A role \in Roles :
        (pc[s] = "main" /\ role \in data[s].extra_elements /\ role \notin data'[s].extra_elements)
        => Linked(db'[SELF_LINKS] \cup written'[s][SELF_LINKS], other_role(role), object_id[s])
           = Linked(db[SELF_LINKS] \cup written[s][SELF_LINKS], other_role(role), object_id[s])

\* C25: over a self-referential link table (parent_id, child_id) with the one
\* active row (1, 2), children of 1 is {2}, parents of 2 is {1}, parents of 1
\* and children of 2 are empty; and reconciling one role of an entity never
\* adds or removes links of its other role.
C25_SelfLinkRoles ==
    [][FourQueries /\ \A s \in Single : RolesIndependent(s)]_vars

\* the second half of C25 for entities that are not linked to themselves
C25_RolesIndependentOfOthers ==
    [][\A s \in Single :
          (\A r \in db'[SELF_LINKS] \cup written'[s][SELF_LINKS] : r.parent_id # r.child_id)
          => RolesIndependent(s)]_vars

\* the link records whose latest version is not deleted, by their latest row
CurrentLinkRows(rows) ==
    {r \in rows : r.status # "deleted" /\ \A q \in rows : q.id = r.id => q.version <= r.version}

\* C26: after any interleaving of the reconciliations of concurrent sessions,
\* starting from an empty link table, at most one link record per
\* (source, target) pair has a latest version that is not deleted.
C26_NoDuplicateActiveLinks ==
    \A a, b \in CurrentLinkRows(db[link_table]) :
        (a[source_field] = b[source_field] /\ a[target_field] = b[target_field]) => a.id = b.id

\* a session has reconciled a selection that holds a target already linked
\* by a committed record, while the other session is between its read of the
\* maximum id and its INSERT: no second record was written for the pair
C26_Witness ==
    \E s \in Concurrent, tg \in Targets :
        /\ pc[s] = "linked"
        /\ tg \in data[s].links
        /\ \E r \in CurrentLinkRows(db[link_table]) :
              r[source_field] = object_id[s] /\ r[target_field] = tg
        /\ ~ \E r \in written[s][link_table] : r[target_field] = tg
        /\ \E t \in Concurrent \ {s} : pc[t] = "alloc"

\* the form of session u shows a stored record at a version below the
\* store's current one
Stale(u) ==
    /\ form[u].table \in Tables
    /\ form[u].id # 0
    /\ \E r \in db[form[u].table] : r.id = form[u].id /\ r.version > form[u].version

\* the step is a submission of session u that reaches its INSERT: the INSERT
\* is accepted or raises IntegrityError
SubmitsEdit(u) ==
    /\ pc[u] = "idle"
    /\ form[u].table \in Tables
    /\ form[u].id # 0
    /\ form'[u] = form[u]
    /\ <<pc[u], data[u], result[u], written[u], object_id[u]>>
       # <<pc'[u], data'[u], result'[u], written'[u], object_id'[u]>>
    /\ pc'[u] = "main" \/ result'[u] = "IntegrityError"

\* the rows stored or inserted by an open submission, over all sessions
AllRows(t) == db[t] \cup UNION {written[u][t] : u \in Sessions}

\* C27: of two sessions that loaded a record at version N and both submit an
\* edit, at most one stores the row of version N + 1 and the other fails on
\* PRIMARY KEY (id, version); a stale edit replaces no stored row, duplicates
\* no version and adds no row.
C27_StaleEditRejected ==
    [][/\ \A t \in Tables : db[t] \subseteq db'[t]
       /\ \A t \in Tables : \A a, b \in AllRows(t)' :
             (a.id = b.id /\ a.version = b.version) => a = b
       /\ \A u \in Concurrent :
             /\ (pc[u] = "idle" /\ Stale(u)) => (written'[u] = written[u] /\ pc'[u] = "idle")
             /\ (SubmitsEdit(u) /\ Stale(u)) => result'[u] = "IntegrityError"
             /\ (SubmitsEdit(u) /\ ~ Stale(u))
                => /\ pc'[u] = "main"
                   /\ \E r \in written'[u][form[u].table] :
                         r.id = form[u].id /\ r.version = form[u].version + 1]_vars

\* both sessions loaded person 1 at version 1; one has stored version 2 and
\* the submission of the other ended in IntegrityError
C27_Witness ==
    \E u \in Concurrent :
        /\ result[u] = "IntegrityError"
        /\ form[u] = [table |-> PEOPLE, id |-> 1, version |-> 1]
        /\ ~ data[u].is_new
        /\ Cardinality({r \in db[PEOPLE] : r.id = 1 /\ r.version = 2}) = 1

\* every link record the current-link query lists for source X has a
\* maximum-version row that names X in the source column
LatestRowNamesSource(rows) ==
    \A X \in 1..MaxId :
        \A m \in CurrentLinkMaps(rows, source_field, target_field, X) :
            \A tg \in DOMAIN m :
                m[tg] # 0 => LatestRow(rows, m[tg])[source_field] = X

\* the rows a reconciliation step of session u writes to mark records deleted
RemovedLinks(u) ==
    {r \in written'[u][link_table] \ written[u][link_table] : r.status = "deleted"}

\* a reconciliation for source X removes only records whose latest row names X
RemovesOwnLinks(u) ==
    (pc[u] = "main" /\ pc'[u] = "linked")
    => \A r \in RemovedLinks(u) :
          LatestRow(TxnRows(u, link_table), r.id)[source_field] = object_id[u]

\* the second half of C28 alone
C28_RemovesOwnLinks == [][RemovesOwnLinks("s1")]_vars

\* C28: a link record is a current link of source X only if its
\* maximum-version row names X in the source column; a record whose latest
\* version names another source (changed through the edge form) is neither
\* listed for X nor removed by a later reconciliation for X.
C28_LatestRowNamesSource ==
    [][LatestRowNamesSource(db[link_table]) /\ RemovesOwnLinks("s1")]_vars

\* the rows a reconciliation step of session u writes to the link table
InsertedLinks(u) == written'[u][link_table] \ written[u][link_table]

\* the frame of a reconciliation of session u for source X = object_id[u]
ReconcileFrame(u) ==
    (pc[u] = "main" /\ pc'[u] = "linked")
    => /\ \A r \in InsertedLinks(u) : r[source_field] = object_id[u]
       /\ \A Y \in (0..MaxId) \ {object_id[u]} :
             ActiveTargets(db'[link_table] \cup written'[u][link_table], Y)
             = ActiveTargets(db[link_table] \cup written[u][link_table], Y)
       /\ written'[u][PEOPLE] = written[u][PEOPLE]
       /\ db' = db

\* C29: a reconciliation for source X inserts rows only for link records
\* whose source column is X; the current target set of every other source of
\* the link table and the rows of every other table are unchanged by it.
C29_ReconcileFrame == [][\A u \in Sessions : ReconcileFrame(u)]_vars

\* the element ids of a graph are pairwise distinct
DistinctElementIds(g) ==
    /\ \A n1, n2 \in g.nodes : n1.id = n2.id => n1 = n2
    /\ \A e1, e2 \in g.edges : e1.id = e2.id => e1 = e2
    /\ \A n \in g.nodes, e \in g.edges : n.id # e.id

\* the node part of C30: node ids are distinct and no edge id is a node id
C30_DistinctNodeIds ==
    elements.built
    => /\ \A n1, n2 \in elements.nodes : n1.id = n2.id => n1 = n2
       /\ \A n \in elements.nodes, e \in elements.edges : n.id # e.id

\* C30: in every output of build_elements_from_db the element ids are
\* pairwise distinct: no two edges share an id (two foreign-key edges between
\* one pair of nodes included) and no edge id equals a node id.
C30_DistinctElementIds ==
    elements.built => DistinctElementIds(all_elements) /\ DistinctElementIds(elements)
====
